---- MODULE Spec2Model ----
(***************************************************************************)
(* Model of the batch classification pipeline of transcript_tag_analyzer.py *)
(* (TranscriptTagAnalyzer and main): runs of main over a corpus of          *)
(* transcripts, the worker pool of process_batch, the read-merge-write of   *)
(* save_batch_results on the output file, and the final recommendation      *)
(* step of generate_comprehensive_tag_suggestions.                          *)
(*                                                                         *)
(* Abstractions: a transcript is its filename (a number, its position in   *)
(* the directory listing); the classifier is a fixed function from          *)
(* transcript to the answer the remote call gives for it; "explanations"   *)
(* are carried nowhere but into the output and are left out.               *)
(***************************************************************************)
EXTENDS Naturals, Sequences, FiniteSets

\* ---------------------------------------------------------------- bounds
NumDocs == 2
MaxBatches == 3
NumThreads == 2
PartitionLen == 5

\* -------------------------------------------------- run configuration
\* The values of --batch-size and --max-workers a run may be given.
BatchSizes == {1, 2}
WorkerCounts == {1, 2}
\* A pool never runs more workers than the batch has transcripts: the
\* configurations with more workers than the batch size behave as the one
\* with as many.
Configs == {c \in [batch_size : BatchSizes, max_workers : WorkerCounts] :
               c.max_workers <= c.batch_size}

Docs == 1..NumDocs
AllTranscripts == [i \in 1..NumDocs |-> i]
Tags == {"a", "b"}
\* The non-empty lists of labels an answer may hold; an answer with no label
\* is the value a failed call is turned into (kind "fail" below).
TagLists == {<<"a">>, <<"b">>, <<"a", "a">>}

\* ------------------------------------------------------ JSON values
\* The value of a "tags" field: a list of strings, or null.
ListOf(s) == [kind |-> "list", items |-> s]
Null == [kind |-> "null", items |-> <<>>]

\* What the remote classifier does for one transcript:
\*   fail    the call raises, times out, or its text is not JSON; or the
\*           answer is {"tags": [], "explanations": {}}, which is what
\*           analyze_transcript_for_tags returns in all these cases
\*   nonmap  the text is JSON but not an object (a list, a string, a number)
\*   null    an object whose "tags" is null
\*   list    an object whose "tags" is a list of strings
Answer ==
    [kind : {"fail", "nonmap", "null"}, tags : {<<>>}]
        \cup [kind : {"list"}, tags : TagLists]

Range(s) == {s[i] : i \in 1..Len(s)}

RECURSIVE SetToSeq(_)
\* The transcripts of S in directory order.
SetToSeq(S) ==
    IF S = {} THEN <<>>
    ELSE LET m == CHOOSE x \in S : \A y \in S : x <= y
         IN <<m>> \o SetToSeq(S \ {m})

\* ------------------------------------------------ ordered dict of counts
\* A dict tag -> count in insertion order: a sequence of [tag, count].
Keys(tf) == {tf[i].tag : i \in 1..Len(tf)}
Freq(tf, l) ==
    IF l \in Keys(tf)
    THEN tf[CHOOSE i \in 1..Len(tf) : tf[i].tag = l].count
    ELSE 0

\* d[t] = d.get(t, 0) + c
AddCount(tf, t, c) ==
    IF t \in Keys(tf)
    THEN [i \in 1..Len(tf) |->
            IF tf[i].tag = t THEN [tag |-> t, count |-> tf[i].count + c] ELSE tf[i]]
    ELSE Append(tf, [tag |-> t, count |-> c])

RECURSIVE CounterFrom(_, _)
CounterFrom(tf, s) ==
    IF s = <<>> THEN tf ELSE CounterFrom(AddCount(tf, Head(s), 1), Tail(s))

\* dict(Counter(all_tags))
Counter(s) == CounterFrom(<<>>, s)

RECURSIVE MergeFrequency(_, _)
\* for tag, count in results["tag_frequency"].items(): existing[tag] = existing.get(tag, 0) + count
MergeFrequency(existing, new) ==
    IF new = <<>> THEN existing
    ELSE MergeFrequency(AddCount(existing, Head(new).tag, Head(new).count), Tail(new))

\* dict.update
Update(f, g) ==
    [d \in (DOMAIN f) \cup (DOMAIN g) |-> IF d \in DOMAIN g THEN g[d] ELSE f[d]]

EmptyMap == [d \in {} |-> Null]

\* ------------------------------------------------------- the snapshot
NoRecommendation == [kind |-> "absent", tags |-> <<>>]

EmptyResults ==
    [individual_transcript_analysis |-> EmptyMap,
     tag_frequency |-> <<>>,
     total_transcripts_analyzed |-> 0,
     total_tags_generated |-> 0,
     unique_tags |-> 0,
     batches_processed |-> 0,
     recommended_tags |-> NoRecommendation]

EmptyBatch ==
    [individual_transcript_analysis |-> EmptyMap,
     tag_frequency |-> <<>>,
     total_transcripts_analyzed |-> 0,
     total_tags_generated |-> 0]

\* The output file: absent, holding a complete snapshot, or truncated /
\* partly written (not parseable).
Absent == [st |-> "absent", data |-> EmptyResults]
Partial == [st |-> "partial", data |-> EmptyResults]
Written(r) == [st |-> "ok", data |-> r]

VARIABLES
    classifier,      \* the answer the remote call gives for each transcript
    driver,          \* "main": runs of main; "host": a caller of process_batch
    file,            \* the output file
    resume,          \* args.resume of the current run
    batch_size,      \* analyzer.batch_size
    max_workers,     \* analyzer.max_workers
    corpus,          \* the transcripts read by the current run
    resume_mode,     \* analyzer._resume_mode
    transcripts,     \* the work list of the current run
    batch_num,
    batch,           \* batch_transcripts
    task,            \* each transcript's future: none, queued, running, done, collected
    batch_results,
    all_tags,
    existing_results,\* save_batch_results' merged snapshot, about to be written
    final_results,
    pc,
    calls,           \* classifier calls per transcript in the current run
    saved_ok,        \* batch numbers of this run whose snapshot was written
    keys0,           \* keys of the snapshot main loaded in resume mode
    cleared,         \* whether this run removed an existing output file
    results_lock,    \* analyzer.results_lock: 0 when free, else the thread holding it
    thread           \* each host thread's call of save_batch_results

\* The variables of the host threads that call save_batch_results.
tvars == <<results_lock, thread>>

vars ==
    <<classifier, driver, file, resume, batch_size, max_workers, corpus, resume_mode,
      transcripts, batch_num, batch, task, batch_results, all_tags,
      existing_results, final_results, pc, calls, saved_ok, keys0, cleared, results_lock, thread>>


\* --------------------------------------------------- the classifier client
\* analyze_transcript_for_tags: the parsed JSON of the answer; every
\* exception (the call, the parse) becomes {"tags": [], "explanations": {}}.
analyze_transcript_for_tags(a) ==
    CASE a.kind = "fail" -> [shape |-> "dict", tags |-> ListOf(<<>>)]
      [] a.kind = "nonmap" -> [shape |-> "other", tags |-> Null]
      [] a.kind = "null" -> [shape |-> "dict", tags |-> Null]
      [] OTHER -> [shape |-> "dict", tags |-> ListOf(a.tags)]

\* analyze_single_transcript: the future's outcome. analysis.get raises
\* AttributeError when the parsed answer is not an object.
analyze_single_transcript(d) ==
    LET analysis == analyze_transcript_for_tags(classifier[d])
    IN IF analysis.shape = "other"
       THEN [raised |-> TRUE, filename |-> d, tags |-> Null]
       ELSE [raised |-> FALSE, filename |-> d, tags |-> analysis.tags]

\* A loop body that keeps the tags of the latest future only.
CollectResultLast(br, at, result) ==
    IF result.raised THEN [results |-> br, all_tags |-> at]
    ELSE LET stored ==
                 [br EXCEPT !.individual_transcript_analysis =
                     Update(@, [f \in {result.filename} |-> result.tags])]
         IN IF result.tags.kind = "null"
            THEN [results |-> stored, all_tags |-> at]
            ELSE [results |->
                      [stored EXCEPT
                          !.total_transcripts_analyzed = @ + 1,
                          !.total_tags_generated = @ + Len(result.tags.items)],
                  all_tags |-> result.tags.items]

\* The body of process_batch's loop for one completed future: the try block
\* stores the result, then all_tags.extend(tags) raises TypeError for a
\* "tags" that is not iterable, which skips the two counters.
CollectResult(br, at, result) ==
    IF result.raised THEN [results |-> br, all_tags |-> at]
    ELSE LET stored ==
                 [br EXCEPT !.individual_transcript_analysis =
                     Update(@, [f \in {result.filename} |-> result.tags])]
         IN IF result.tags.kind = "null"
            THEN [results |-> stored, all_tags |-> at]
            ELSE [results |->
                      [stored EXCEPT
                          !.total_transcripts_analyzed = @ + 1,
                          !.total_tags_generated = @ + Len(result.tags.items)],
                  all_tags |-> at \o result.tags.items]

\* save_batch_results, the merge of a batch into the loaded snapshot.
MergeResults(existing, results) ==
    LET tf == MergeFrequency(existing.tag_frequency, results.tag_frequency)
    IN [existing EXCEPT
           !.individual_transcript_analysis =
               Update(@, results.individual_transcript_analysis),
           !.tag_frequency = tf,
           !.total_transcripts_analyzed = @ + results.total_transcripts_analyzed,
           !.total_tags_generated = @ + results.total_tags_generated,
           !.unique_tags = Cardinality(Keys(tf)),
           !.batches_processed = @ + 1]

\* The resume filter, keeping every transcript.
RemainingUnfiltered(ts, processed) == ts

\* main: the transcripts whose filename is not in processed_files.
Remaining(ts, processed) == SelectSeq(ts, LAMBDA t : t \notin processed)

\* generate_comprehensive_tag_suggestions: the batch partition.
total_batches(ts) == (Len(ts) + batch_size - 1) \div batch_size
\* A first index that skips one batch.
start_idxNext(n) == n * batch_size
start_idx(n) == (n - 1) * batch_size
end_idx(ts, n) ==
    IF start_idx(n) + batch_size < Len(ts) THEN start_idx(n) + batch_size ELSE Len(ts)
batch_transcripts(ts, n) == SubSeq(ts, start_idx(n) + 1, end_idx(ts, n))

\* ------------------------------------------------- recommendation engine
RECURSIVE MostCommonAll(_)
\* Counter.most_common: by count, descending; equal counts in insertion order.
MostCommonAll(tf) ==
    IF tf = <<>> THEN <<>>
    ELSE LET i == CHOOSE i \in 1..Len(tf) :
                     /\ \A j \in 1..Len(tf) : tf[j].count <= tf[i].count
                     /\ \A j \in 1..(i - 1) : tf[j].count < tf[i].count
             rest == [j \in 1..(Len(tf) - 1) |-> IF j < i THEN tf[j] ELSE tf[j + 1]]
         IN <<tf[i].tag>> \o MostCommonAll(rest)

Take(s, n) == IF Len(s) <= n THEN s ELSE SubSeq(s, 1, n)

TopN == 20
FallbackN == 10

\* What the categorization call does:
\*   fail     it raises, or its text is not JSON
\*   mapping  its text is a JSON object from category name to a list of labels
\*   other    its text is any other JSON value (a list, a string, an object
\*            whose values are not lists of labels)
CatAnswers == {"fail", "mapping", "other"}

\* The value of recommended_tags: the fallback over the most common tags when
\* the call or json.loads raised, else the parsed JSON as it is.
generate_final_recommendations(tf, ans) ==
    LET most_common_tags == Take(MostCommonAll(tf), TopN)
    IN IF ans = "fail"
       THEN [kind |-> "fallback", tags |-> Take(most_common_tags, FallbackN)]
       ELSE [kind |-> ans, tags |-> <<>>]

\* ------------------------------------------------------------- Init
NoTasks == [d \in Docs |-> "none"]
NoCalls == [d \in Docs |-> 0]
NotLoaded == [loaded |-> FALSE, keys |-> {}]
Threads == 1..NumThreads
NoThreads ==
    [t \in Threads |-> [pc |-> "idle", results |-> EmptyBatch, existing |-> EmptyResults]]

InitCommon ==
    /\ classifier \in [Docs -> Answer]
    /\ file = Absent
    /\ resume = FALSE
    /\ \E c \in Configs : batch_size = c.batch_size /\ max_workers = c.max_workers
    /\ corpus = <<>>
    /\ resume_mode = FALSE
    /\ transcripts = <<>>
    /\ batch_num = 0
    /\ batch = <<>>
    /\ task = NoTasks
    /\ batch_results = EmptyBatch
    /\ all_tags = <<>>
    /\ existing_results = EmptyResults
    /\ final_results = EmptyResults
    /\ calls = NoCalls
    /\ saved_ok = {}
    /\ keys0 = NotLoaded
    /\ cleared = FALSE
    /\ results_lock = 0

\* The callers of generate_comprehensive_tag_suggestions: main, and
\* example_usage, which names no output file.
Runs == {"main", "example"}

\* A run of main starts no thread that calls save_batch_results.
Init == InitCommon /\ driver = "main" /\ pc = "idle" /\ thread = <<>>

\* ------------------------------------------------------------- main
\* The snapshot a reader of the output file gets: the file's, or the defaults.
Loaded == IF file.st = "ok" THEN file.data ELSE EmptyResults

Ended == {"done", "aborted", "interrupted", "empty"}

\* Whether the run that just ended ran every batch and wrote each snapshot.
RunOk == pc = "done" /\ saved_ok = 1..total_batches(transcripts)

\* A resume of a run that takes any output file for a readable snapshot.
AlwaysReadable == FALSE

\* main's json.load of the output file raises: the file is not a complete
\* snapshot.
SnapshotUnreadable == file.st = "partial"

\* One run of main, up to the call of generate_comprehensive_tag_suggestions:
\* read the k first transcripts of the directory, then the resume filter.
StartRun(r, k) ==
    /\ driver = "main"
    /\ pc \in Ended \cup {"idle"}
    /\ Loaded.batches_processed < MaxBatches
    /\ resume' = r
    /\ corpus' = SubSeq(AllTranscripts, 1, k)
    /\ calls' = NoCalls
    /\ saved_ok' = {}
    /\ batch_num' = 0
    /\ batch' = <<>>
    /\ task' = NoTasks
    /\ batch_results' = EmptyBatch
    /\ all_tags' = <<>>
    /\ existing_results' = EmptyResults
    /\ cleared' = FALSE
    /\ IF k = 0
       THEN \* "No transcripts found to analyze."
            /\ pc' = "empty"
            /\ transcripts' = <<>>
            /\ resume_mode' = FALSE
            /\ keys0' = NotLoaded
            /\ final_results' = EmptyResults
       ELSE IF r /\ file.st # "absent"
       THEN IF SnapshotUnreadable
            THEN \* json.load raises; main's handler prints and returns
                 /\ pc' = "aborted"
                 /\ transcripts' = <<>>
                 /\ resume_mode' = FALSE
                 /\ keys0' = NotLoaded
                 /\ final_results' = EmptyResults
            ELSE LET processed_files == DOMAIN file.data.individual_transcript_analysis
                     remaining_transcripts == Remaining(corpus', processed_files)
                 IN /\ transcripts' = remaining_transcripts
                    /\ keys0' = [loaded |-> TRUE, keys |-> processed_files]
                    /\ IF remaining_transcripts # <<>>
                       THEN /\ resume_mode' = TRUE
                            /\ pc' = "gcts"
                            /\ final_results' = EmptyResults
                       ELSE \* results = existing_results
                            /\ resume_mode' = FALSE
                            /\ pc' = "done"
                            /\ final_results' = file.data
       ELSE /\ transcripts' = corpus'
            /\ resume_mode' = FALSE
            /\ keys0' = NotLoaded
            /\ final_results' = EmptyResults
            /\ pc' = "gcts"
    /\ UNCHANGED <<classifier, driver, batch_size, max_workers, file, tvars>>

\* A start that reports the existing output file and keeps it.
ClearOutputKeeps ==
    /\ pc = "gcts"
    /\ cleared' = (file.st # "absent" /\ ~resume_mode)
    /\ batch_num' = 1
    /\ pc' = "loop"
    /\ UNCHANGED <<classifier, driver, batch_size, max_workers, file, resume, corpus,
                   resume_mode, transcripts, batch, task, batch_results,
                   all_tags, existing_results, final_results, calls, saved_ok,
                   keys0, tvars>>

\* The removal of the output file, without the test of _resume_mode.
ClearOutputAlways ==
    /\ pc = "gcts"
    /\ file' = Absent
    /\ cleared' = (file.st # "absent")
    /\ batch_num' = 1
    /\ pc' = "loop"
    /\ UNCHANGED <<classifier, driver, batch_size, max_workers, resume, corpus,
                   resume_mode, transcripts, batch, task, batch_results,
                   all_tags, existing_results, final_results, calls, saved_ok,
                   keys0, tvars>>

\* generate_comprehensive_tag_suggestions, before the loop: a run that is
\* not resuming removes the output file.
ClearOutput ==
    /\ pc = "gcts"
    /\ file' = IF file.st # "absent" /\ ~resume_mode THEN Absent ELSE file
    /\ cleared' = (file.st # "absent" /\ ~resume_mode)
    /\ batch_num' = 1
    /\ pc' = "loop"
    /\ UNCHANGED <<classifier, driver, batch_size, max_workers, resume, corpus, resume_mode,
                   transcripts, batch, task, batch_results, all_tags,
                   existing_results, final_results, calls, saved_ok, keys0, tvars>>

\* process_batch up to the submission of every transcript of the batch.
Submit(b) ==
    /\ batch' = b
    /\ batch_results' = EmptyBatch
    /\ all_tags' = <<>>
    /\ task' = [d \in Docs |-> IF d \in Range(b) THEN "queued" ELSE "none"]
    /\ pc' = "collect"

\* The loop of generate_comprehensive_tag_suggestions calls process_batch.
Dispatch ==
    /\ driver \in Runs
    /\ pc = "loop"
    /\ batch_num <= total_batches(transcripts)
    /\ Submit(batch_transcripts(transcripts, batch_num))
    /\ UNCHANGED <<classifier, driver, batch_size, max_workers, file, resume, corpus,
                   resume_mode, transcripts, batch_num, existing_results,
                   final_results, calls, saved_ok, keys0, cleared, tvars>>

LoopExit ==
    /\ driver \in Runs
    /\ pc = "loop"
    /\ batch_num > total_batches(transcripts)
    /\ pc' = "final_load"
    /\ UNCHANGED <<classifier, driver, batch_size, max_workers, file, resume, corpus,
                   resume_mode, transcripts, batch_num, batch, task,
                   batch_results, all_tags, existing_results, final_results,
                   calls, saved_ok, keys0, cleared, tvars>>

\* ------------------------------------------------------ the worker pool
Running == {d \in Docs : task[d] = "running"}
Queued == {d \in Docs : task[d] = "queued"}

\* A pool that starts a thread for every queued task, whatever max_workers is.
WorkerStartUnbounded(d) ==
    /\ task[d] = "queued"
    /\ \A e \in Queued : e >= d
    /\ task' = [task EXCEPT ![d] = "running"]
    /\ calls' = [calls EXCEPT ![d] = @ + 1]
    /\ UNCHANGED <<classifier, driver, batch_size, max_workers, file, resume, corpus,
                   resume_mode, transcripts, batch_num, batch, batch_results,
                   all_tags, existing_results, final_results, pc, saved_ok,
                   keys0, cleared, tvars>>

\* A pool thread takes the oldest queued task and calls the classifier.
WorkerStart(d) ==
    /\ task[d] = "queued"
    /\ \A e \in Queued : e >= d
    /\ Cardinality(Running) < max_workers
    /\ task' = [task EXCEPT ![d] = "running"]
    /\ calls' = [calls EXCEPT ![d] = @ + 1]
    /\ UNCHANGED <<classifier, driver, batch_size, max_workers, file, resume, corpus,
                   resume_mode, transcripts, batch_num, batch, batch_results,
                   all_tags, existing_results, final_results, pc, saved_ok,
                   keys0, cleared, tvars>>

\* The classifier call returns (or raises) and the future completes.
WorkerFinish(d) ==
    /\ task[d] = "running"
    /\ task' = [task EXCEPT ![d] = "done"]
    /\ UNCHANGED <<classifier, driver, batch_size, max_workers, file, resume, corpus,
                   resume_mode, transcripts, batch_num, batch, batch_results,
                   all_tags, existing_results, final_results, pc, calls,
                   saved_ok, keys0, cleared, tvars>>

\* as_completed yields a completed future; the controller stores its result.
Collect(d) ==
    /\ pc = "collect"
    /\ task[d] = "done"
    /\ LET c == CollectResult(batch_results, all_tags, analyze_single_transcript(d))
       IN /\ batch_results' = c.results
          /\ all_tags' = c.all_tags
    /\ task' = [task EXCEPT ![d] = "collected"]
    /\ UNCHANGED <<classifier, driver, batch_size, max_workers, file, resume, corpus,
                   resume_mode, transcripts, batch_num, batch, existing_results,
                   final_results, pc, calls, saved_ok, keys0, cleared, tvars>>

\* A process_batch that leaves its loop without waiting for every future.
BatchEndEarly ==
    /\ pc = "collect"
    /\ batch_results' = [batch_results EXCEPT !.tag_frequency = Counter(all_tags)]
    /\ pc' = "save"
    /\ UNCHANGED <<classifier, driver, batch_size, max_workers, file, resume, corpus,
                   resume_mode, transcripts, batch_num, batch, task, all_tags,
                   existing_results, final_results, calls, saved_ok, keys0, cleared, tvars>>

\* Every future was yielded: the pool shuts down, the batch's tag frequency
\* is computed and save_batch_results is entered.
BatchEnd ==
    /\ pc = "collect"
    /\ \A d \in Range(batch) : task[d] = "collected"
    /\ batch_results' = [batch_results EXCEPT !.tag_frequency = Counter(all_tags)]
    /\ pc' = "save"
    /\ UNCHANGED <<classifier, driver, batch_size, max_workers, file, resume, corpus,
                   resume_mode, transcripts, batch_num, batch, task, all_tags,
                   existing_results, final_results, calls, saved_ok, keys0, cleared, tvars>>


\* -------------------------------------------------- save_batch_results
\* A loop that does not advance to the next batch.
ReturnSameBatch ==
    IF driver \in Runs
    THEN batch_num' = batch_num /\ pc' = "loop"
    ELSE batch_num' = batch_num /\ pc' = "host"

\* save_batch_results returns to process_batch, which returns to its caller.
Return ==
    IF driver \in Runs
    THEN batch_num' = batch_num + 1 /\ pc' = "loop"
    ELSE batch_num' = batch_num /\ pc' = "host"

\* json.load raises on a file that is not a complete snapshot; the handler
\* prints the error and the batch is not saved.
SaveLoadFails ==
    /\ pc = "save"
    /\ file.st = "partial"
    /\ Return
    /\ UNCHANGED <<classifier, driver, batch_size, max_workers, file, resume, corpus,
                   resume_mode, transcripts, batch, task, batch_results,
                   all_tags, existing_results, final_results, calls, saved_ok,
                   keys0, cleared, tvars>>

\* The snapshot is loaded and merged; open(output_file, "w") truncates the file.
SaveOpen ==
    /\ pc = "save"
    /\ file.st # "partial"
    /\ existing_results' = MergeResults(Loaded, batch_results)
    /\ file' = Partial
    /\ pc' = "save_dump"
    /\ UNCHANGED <<classifier, driver, batch_size, max_workers, resume, corpus, resume_mode,
                   transcripts, batch_num, batch, task, batch_results, all_tags,
                   final_results, calls, saved_ok, keys0, cleared, tvars>>

\* open(output_file, "w") raises: the file is as it was, the handler prints
\* the error and the batch is not saved.
SaveOpenFails ==
    /\ pc = "save"
    /\ file.st # "partial"
    /\ Return
    /\ UNCHANGED <<classifier, driver, batch_size, max_workers, file, resume, corpus, resume_mode,
                   transcripts, batch, task, batch_results, all_tags,
                   existing_results, final_results, calls, saved_ok, keys0, cleared, tvars>>

\* json.dump writes the whole snapshot.
SaveDump ==
    /\ pc = "save_dump"
    /\ file' = Written(existing_results)
    /\ saved_ok' = saved_ok \cup {batch_num}
    /\ Return
    /\ UNCHANGED <<classifier, driver, batch_size, max_workers, resume, corpus, resume_mode,
                   transcripts, batch, task, batch_results, all_tags,
                   existing_results, final_results, calls, keys0, cleared, tvars>>

\* json.dump raises part way: the file stays partly written.
SaveDumpFails ==
    /\ pc = "save_dump"
    /\ Return
    /\ UNCHANGED <<classifier, driver, batch_size, max_workers, file, resume, corpus, resume_mode,
                   transcripts, batch, task, batch_results, all_tags,
                   existing_results, final_results, calls, saved_ok, keys0, cleared, tvars>>

\* ------------------- generate_comprehensive_tag_suggestions, after the loop
\* "Load final results"; json.load of a partly written file raises, which
\* main's handler catches.
FinalLoad ==
    /\ pc = "final_load"
    /\ IF file.st = "partial"
       THEN pc' = "aborted" /\ UNCHANGED final_results
       ELSE pc' = "recommend" /\ final_results' = Loaded
    /\ UNCHANGED <<classifier, driver, batch_size, max_workers, file, resume, corpus,
                   resume_mode, transcripts, batch_num, batch, task,
                   batch_results, all_tags, existing_results, calls, saved_ok,
                   keys0, cleared, tvars>>

\* "Generate final recommendations", only when some tag was counted.
Recommend ==
    /\ pc = "recommend"
    /\ IF final_results.tag_frequency # <<>>
       THEN \E ans \in CatAnswers :
                final_results' =
                    [final_results EXCEPT !.recommended_tags =
                        generate_final_recommendations(final_results.tag_frequency, ans)]
       ELSE UNCHANGED final_results
    /\ pc' = "final_write"
    /\ UNCHANGED <<classifier, driver, batch_size, max_workers, file, resume, corpus,
                   resume_mode, transcripts, batch_num, batch, task,
                   batch_results, all_tags, existing_results, calls, saved_ok,
                   keys0, cleared, tvars>>

\* "Save final results with recommendations": open(output_file, "w").
FinalOpen ==
    /\ pc = "final_write"
    /\ file' = Partial
    /\ pc' = "final_dump"
    /\ UNCHANGED <<classifier, driver, batch_size, max_workers, resume, corpus, resume_mode,
                   transcripts, batch_num, batch, task, batch_results, all_tags,
                   existing_results, final_results, calls, saved_ok, keys0, cleared, tvars>>

\* json.dump of the final results; the run returns to main and ends.
FinalDump ==
    /\ pc = "final_dump"
    /\ file' = Written(final_results)
    /\ pc' = "done"
    /\ UNCHANGED <<classifier, driver, batch_size, max_workers, resume, corpus, resume_mode,
                   transcripts, batch_num, batch, task, batch_results, all_tags,
                   existing_results, final_results, calls, saved_ok, keys0, cleared, tvars>>

\* The final open or json.dump raises: the exception reaches main's handler.
FinalWriteFails ==
    /\ pc \in {"final_write", "final_dump"}
    /\ pc' = "aborted"
    /\ UNCHANGED <<classifier, driver, batch_size, max_workers, file, resume, corpus, resume_mode,
                   transcripts, batch_num, batch, task, batch_results, all_tags,
                   existing_results, final_results, calls, saved_ok, keys0, cleared, tvars>>

\* KeyboardInterrupt in the main thread: it is not an Exception, so no handler
\* of process_batch, save_batch_results or main catches it. Inside the pool's
\* with block the executor's shutdown first waits for every submitted
\* transcript, queued ones included, whose results nobody reads; then the
\* process ends and its results in memory are gone. Whatever the output file
\* holds at that instant stays.
InProgress ==
    {"gcts", "loop", "collect", "save", "save_dump", "final_load", "recommend",
     "final_write", "final_dump"}

\* An interruption whose handler merges and writes what was collected so far.
InterruptSavesPartial ==
    /\ driver = "main"
    /\ pc \in InProgress
    /\ pc' = "interrupted"
    /\ file' = IF pc = "collect" /\ file.st # "partial"
               THEN Written(MergeResults(Loaded, batch_results))
               ELSE file
    /\ calls' = [d \in Docs |-> IF task[d] = "queued" THEN calls[d] + 1 ELSE calls[d]]
    /\ task' = [d \in Docs |-> IF task[d] \in {"queued", "running"} THEN "done" ELSE task[d]]
    /\ batch_results' = EmptyBatch
    /\ all_tags' = <<>>
    /\ final_results' = EmptyResults
    /\ UNCHANGED <<classifier, driver, batch_size, max_workers, resume, corpus,
                   resume_mode, transcripts, batch_num, batch, existing_results,
                   saved_ok, keys0, cleared, tvars>>

Interrupt ==
    /\ driver = "main"
    /\ pc \in InProgress
    /\ pc' = "interrupted"
    /\ calls' = [d \in Docs |-> IF task[d] = "queued" THEN calls[d] + 1 ELSE calls[d]]
    /\ task' = [d \in Docs |-> IF task[d] \in {"queued", "running"} THEN "done" ELSE task[d]]
    /\ batch_results' = EmptyBatch
    /\ all_tags' = <<>>
    /\ final_results' = EmptyResults
    /\ UNCHANGED <<classifier, driver, batch_size, max_workers, file, resume, corpus,
                   resume_mode, transcripts, batch_num, batch, existing_results,
                   saved_ok, keys0, cleared, tvars>>

\* ------------------------------------------------------------- Spec
Workers == \E d \in Docs : WorkerStart(d) \/ WorkerFinish(d) \/ Collect(d)

Saves == SaveLoadFails \/ SaveOpen \/ SaveOpenFails \/ SaveDump \/ SaveDumpFails

Next ==
    \/ \E r \in BOOLEAN, k \in 0..NumDocs : StartRun(r, k)
    \/ ClearOutput
    \/ Dispatch
    \/ LoopExit
    \/ Workers
    \/ BatchEnd
    \/ Saves
    \/ FinalLoad
    \/ Recommend
    \/ FinalOpen
    \/ FinalDump
    \/ FinalWriteFails
    \/ Interrupt

Spec == Init /\ [][Next]_vars

\* A run in progress takes its next step: the code is sequential, every
\* classifier call returns or raises, and every file operation ends.
RunStep ==
    \/ ClearOutput
    \/ Dispatch
    \/ LoopExit
    \/ Workers
    \/ BatchEnd
    \/ Saves
    \/ FinalLoad
    \/ Recommend
    \/ FinalOpen
    \/ FinalDump
    \/ FinalWriteFails
    \/ Interrupt

\* The order and the progress of the steps of a run depend on the answers
\* only through a transcript being stored or not and a tag being counted or
\* not: one answer of each sort.
LiveAnswers ==
    {a \in Answer : a.kind \in {"fail", "nonmap"} \/ a.tags = <<"a">>}

InitLive == Init /\ \A d \in Docs : classifier[d] \in LiveAnswers

SpecLive == InitLive /\ [][Next]_vars /\ WF_vars(RunStep)


\* ------------------------------------------------ example_usage
\* example_usage calls generate_comprehensive_tag_suggestions(transcripts)
\* with output_file = None, then save_results(results, "my_tag_analysis.json")
\* and print_summary(results). No output file is named during the run: file
\* is the file that save_results writes afterwards.
InitExample == InitCommon /\ driver = "example" /\ pc = "idle" /\ thread = <<>>

\* read_transcript_files returned k transcripts, k > 0 ("if transcripts:").
ExampleStart(k) ==
    /\ driver = "example"
    /\ pc = "idle"
    /\ corpus' = SubSeq(AllTranscripts, 1, k)
    /\ transcripts' = corpus'
    /\ pc' = "gcts"
    /\ UNCHANGED <<classifier, driver, batch_size, max_workers, file, resume,
                   resume_mode, batch_num, batch, task, batch_results, all_tags,
                   existing_results, final_results, calls, saved_ok, keys0,
                   cleared, tvars>>

\* save_batch_results with output_file = None: os.path.exists(None) raises
\* TypeError inside the try block; the handler prints "Error saving batch
\* results" and the batch's results are dropped.
SaveNoFile ==
    /\ driver = "example"
    /\ pc = "save"
    /\ Return
    /\ UNCHANGED <<classifier, driver, batch_size, max_workers, file, resume, corpus,
                   resume_mode, transcripts, batch, task, batch_results,
                   all_tags, existing_results, final_results, calls, saved_ok,
                   keys0, cleared, tvars>>

\* "Load final results" with output_file = None: the else branch, the empty
\* defaults.
FinalDefaults ==
    /\ driver = "example"
    /\ pc = "final_load"
    /\ final_results' = EmptyResults
    /\ pc' = "recommend"
    /\ UNCHANGED <<classifier, driver, batch_size, max_workers, file, resume, corpus,
                   resume_mode, transcripts, batch_num, batch, task,
                   batch_results, all_tags, existing_results, calls, saved_ok,
                   keys0, cleared, tvars>>

\* "if output_file:" is false: nothing is written and final_results is
\* returned to example_usage.
FinalSkip ==
    /\ driver = "example"
    /\ pc = "final_write"
    /\ pc' = "returned"
    /\ UNCHANGED <<classifier, driver, batch_size, max_workers, file, resume, corpus,
                   resume_mode, transcripts, batch_num, batch, task,
                   batch_results, all_tags, existing_results, final_results,
                   calls, saved_ok, keys0, cleared, tvars>>

\* save_results writes the returned results; print_summary then reads
\* results["recommended_tags"], a KeyError when no recommendation was made.
ExampleSave ==
    /\ driver = "example"
    /\ pc = "returned"
    /\ file' = Written(final_results)
    /\ pc' = IF final_results.recommended_tags = NoRecommendation
             THEN "aborted"
             ELSE "done"
    /\ UNCHANGED <<classifier, driver, batch_size, max_workers, resume, corpus,
                   resume_mode, transcripts, batch_num, batch, task,
                   batch_results, all_tags, existing_results, final_results,
                   calls, saved_ok, keys0, cleared, tvars>>

NextExample ==
    \/ \E k \in 1..NumDocs : ExampleStart(k)
    \/ ClearOutput
    \/ Dispatch
    \/ LoopExit
    \/ Workers
    \/ BatchEnd
    \/ SaveNoFile
    \/ FinalDefaults
    \/ Recommend
    \/ FinalSkip
    \/ ExampleSave

SpecExample == InitExample /\ [][NextExample]_vars


\* --------------------------------------- process_batch called by a host
\* A caller other than main (process_batch and save_batch_results are public
\* methods) hands any batch of transcripts to process_batch, one call after
\* the other, on one output file.
InitHost == InitCommon /\ driver = "host" /\ pc = "host" /\ thread = <<>>

HostProcessBatch(S) ==
    /\ driver = "host"
    /\ pc = "host"
    /\ Loaded.batches_processed < MaxBatches
    /\ S # {}
    /\ Submit(SetToSeq(S))
    /\ batch_num' = Loaded.batches_processed + 1
    /\ calls' = NoCalls
    /\ UNCHANGED <<classifier, driver, batch_size, max_workers, file, resume,
                   corpus, resume_mode, transcripts, existing_results,
                   final_results, saved_ok, keys0, cleared, tvars>>

NextHost ==
    \/ \E S \in SUBSET Docs : HostProcessBatch(S)
    \/ Workers
    \/ BatchEnd
    \/ Saves

SpecHost == InitHost /\ [][NextHost]_vars

\* ------------------------------------------- a run without interleaving
RECURSIVE CollectAll(_, _, _)
\* process_batch's loop over a batch whose futures complete in submission order.
CollectAll(br, at, b) ==
    IF b = <<>> THEN [results |-> br, all_tags |-> at]
    ELSE LET c == CollectResult(br, at, analyze_single_transcript(Head(b)))
         IN CollectAll(c.results, c.all_tags, Tail(b))

\* The batch_results process_batch hands to save_batch_results.
process_batch(b) ==
    LET c == CollectAll(EmptyBatch, <<>>, b)
    IN [c.results EXCEPT !.tag_frequency = Counter(c.all_tags)]

RECURSIVE RunBatches(_, _, _)
RunBatches(acc, ts, n) ==
    IF n > total_batches(ts) THEN acc
    ELSE RunBatches(MergeResults(acc, process_batch(batch_transcripts(ts, n))), ts, n + 1)

\* The snapshot after the loop of one fresh run over ts in which every
\* snapshot is written.
FreshRun(ts) == RunBatches(EmptyResults, ts, 1)

\* ---------------------------- save_batch_results called by host threads
\* Threads of a host share one analyzer and one output file; each calls
\* save_batch_results once, with the outcome of some batch; no pool runs.
InitThreads ==
    /\ InitCommon
    /\ max_workers = 1
    /\ driver = "threads"
    /\ pc = "threads"
    /\ thread = NoThreads

\* The variables the threads leave alone.
mvars ==
    <<classifier, driver, resume, batch_size, max_workers, corpus, resume_mode,
      transcripts, batch_num, batch, task, batch_results, all_tags,
      existing_results, final_results, pc, calls, saved_ok, keys0, cleared>>

InSection(t) == thread[t].pc \in {"load", "dump"}

\* The outcome of a thread's call: pc "saved" or "error", the lock released.
Leave(t, how) ==
    /\ thread' = [thread EXCEPT ![t].pc = how]
    /\ results_lock' = 0

\* The batch outcomes a thread may hand over: process_batch's, for the
\* batches of the corpus.
Outcomes ==
    {process_batch(batch_transcripts(AllTranscripts, n)) :
        n \in 1..total_batches(AllTranscripts)}

\* A thread calls save_batch_results(results, output_file).
Call(t) ==
    /\ driver = "threads"
    /\ thread[t].pc = "idle"
    /\ \E results \in Outcomes :
           thread' = [thread EXCEPT ![t] = [pc |-> "wait", results |-> results,
                                            existing |-> EmptyResults]]
    /\ UNCHANGED <<file, results_lock, mvars>>

\* A thread that enters the section whether the lock is free or not.
AcquireUnlocked(t) ==
    /\ thread[t].pc = "wait"
    /\ results_lock' = t
    /\ thread' = [thread EXCEPT ![t].pc = "load"]
    /\ UNCHANGED <<file, mvars>>

\* with self.results_lock: the thread waits until the lock is free.
Acquire(t) ==
    /\ thread[t].pc = "wait"
    /\ results_lock = 0
    /\ results_lock' = t
    /\ thread' = [thread EXCEPT ![t].pc = "load"]
    /\ UNCHANGED <<file, mvars>>

\* json.load raises on a file that is not a complete snapshot.
ThreadLoadFails(t) ==
    /\ thread[t].pc = "load"
    /\ file.st = "partial"
    /\ Leave(t, "error")
    /\ UNCHANGED <<file, mvars>>

\* The snapshot is loaded and merged; open(output_file, "w") truncates the file.
ThreadOpen(t) ==
    /\ thread[t].pc = "load"
    /\ file.st # "partial"
    /\ thread' = [thread EXCEPT ![t].pc = "dump",
                                 ![t].existing = MergeResults(Loaded, thread[t].results)]
    /\ file' = Partial
    /\ UNCHANGED <<results_lock, mvars>>

\* open(output_file, "w") raises: the file is as it was.
ThreadOpenFails(t) ==
    /\ thread[t].pc = "load"
    /\ file.st # "partial"
    /\ Leave(t, "error")
    /\ UNCHANGED <<file, mvars>>

\* json.dump writes the whole snapshot.
ThreadDump(t) ==
    /\ thread[t].pc = "dump"
    /\ file' = Written(thread[t].existing)
    /\ Leave(t, "saved")
    /\ UNCHANGED mvars

\* json.dump raises part way: the file stays partly written.
ThreadDumpFails(t) ==
    /\ thread[t].pc = "dump"
    /\ Leave(t, "error")
    /\ UNCHANGED <<file, mvars>>

NextThreads ==
    \E t \in Threads :
        \/ Call(t)
        \/ Acquire(t)
        \/ ThreadLoadFails(t)
        \/ ThreadOpen(t)
        \/ ThreadOpenFails(t)
        \/ ThreadDump(t)
        \/ ThreadDumpFails(t)

SpecThreads == InitThreads /\ [][NextThreads]_vars

\* ------------------------------------------------------------- claims
Snapshot == file.data
Results == file.data.individual_transcript_analysis
Persisted == file.st = "ok"
Contains(tv, l) == tv.kind = "list" /\ l \in Range(tv.items)
FailedIn(S) == {d \in S : classifier[d].kind = "fail"}

RECURSIVE SumTags(_, _)
\* The sum of len(tags) over the entries of ita with a key in S.
SumTags(ita, S) ==
    IF S = {} THEN 0
    ELSE LET d == CHOOSE x \in S : TRUE
         IN Len(ita[d].items) + SumTags(ita, S \ {d})

\* C1: in every persisted snapshot, tag_frequency[l] is the number of stored
\* entries whose tags contain l, for every label l.
FrequencyInvariant ==
    Persisted =>
        \A l \in Tags :
            Freq(Snapshot.tag_frequency, l)
                = Cardinality({d \in DOMAIN Results : Contains(Results[d], l)})

\* C2: a transcript whose classification call failed is never a key of the
\* persisted individual_transcript_analysis.
FailedNeverStored ==
    Persisted => FailedIn(DOMAIN Results) = {}

\* C3: a batch of n transcripts of which the set F failed holds n - |F|
\* results and counts n - |F| transcripts, and after a fresh run of that one
\* batch the work list a resume run over the same transcripts computes is
\* exactly F.
BatchBarrierWithFailures ==
    LET clean(S) == \A d \in S : classifier[d].kind \in {"fail", "list"}
    IN /\ (pc = "save" /\ clean(Range(batch))) =>
             LET n == Len(batch) - Cardinality(FailedIn(Range(batch)))
             IN /\ Cardinality(DOMAIN batch_results.individual_transcript_analysis) = n
                /\ batch_results.total_transcripts_analyzed = n
       /\ (/\ RunOk
           /\ ~keys0.loaded
           /\ Len(corpus) <= batch_size
           /\ clean(Range(corpus))) =>
             /\ Persisted
             /\ Snapshot.total_transcripts_analyzed
                    = Len(corpus) - Cardinality(FailedIn(Range(corpus)))
             /\ Remaining(corpus, DOMAIN Results) = SetToSeq(FailedIn(Range(corpus)))

\* C4: in every persisted snapshot, total_transcripts_analyzed is the number
\* of keys of individual_transcript_analysis.
TotalIsNumberOfKeys ==
    Persisted => Snapshot.total_transcripts_analyzed = Cardinality(DOMAIN Results)

\* C5: in every persisted snapshot, total_tags_generated is the sum of
\* len(tags) over the entries of individual_transcript_analysis.
TotalTagsIsSum ==
    Persisted => Snapshot.total_tags_generated = SumTags(Results, DOMAIN Results)

\* C6: a run in resume mode on all transcripts whose snapshots are all
\* written, whatever snapshot earlier runs left (that of a run on the first k
\* transcripts among them), ends with the result ids, the tags of each and the
\* tag_frequency mapping of one fresh run on all transcripts.
SplitThenResumed ==
    /\ resume
    /\ corpus = AllTranscripts
    /\ RunOk

ResumeCompleteness ==
    SplitThenResumed =>
        LET one == FreshRun(AllTranscripts)
        IN /\ Persisted
           /\ Results = one.individual_transcript_analysis
           /\ \A l \in Tags :
                  Freq(Snapshot.tag_frequency, l) = Freq(one.tag_frequency, l)

ResumeCompletenessWitness ==
    /\ SplitThenResumed
    /\ keys0.loaded
    /\ keys0.keys = Range(SubSeq(AllTranscripts, 1, 1))
    /\ Cardinality(DOMAIN Results) = NumDocs
    /\ Snapshot.tag_frequency # <<>>

\* C7: in resume mode with a parseable snapshot, the work list is the
\* subsequence of the transcripts read, in their order, whose filename is not
\* a key of the snapshot, and no transcript of the snapshot is classified.
ResumeCoordinator ==
    keys0.loaded =>
        /\ Range(transcripts) = Range(corpus) \ keys0.keys
        /\ \A i, j \in 1..Len(transcripts) : i < j => transcripts[i] < transcripts[j]
        /\ \A d \in keys0.keys : calls[d] = 0 /\ task[d] = "none"

ResumeCoordinatorWitness ==
    /\ keys0.loaded
    /\ keys0.keys # {}
    /\ \E d \in Docs : calls[d] > 0
    /\ pc = "done"

\* C8: no classifier call of a batch starts before the snapshot of every
\* earlier batch of the run has been written to the output file.
StrictBatchOrdering ==
    \A d \in Docs :
        task[d] = "running" => \A j \in 1..(batch_num - 1) : j \in saved_ok

\* C9: once the snapshot of a batch could not be written, no later batch is
\* dispatched and the recommendation step is not reached.
PersistenceFailureIsFatal ==
    (\E j \in 1..(batch_num - 1) : j \notin saved_ok) =>
        pc \notin {"collect", "recommend"}

\* C10: the output file never holds an empty or partly written snapshot.
AtomicSnapshotWrite == file.st \in {"absent", "ok"}

\* C11: a run of generate_comprehensive_tag_suggestions that aborts (an error
\* that reaches main's handler, or an interruption) leaves an output file that
\* is not partly written and, once a batch of the run was written, holds
\* exactly the merged state of the last batch written.
Aborted == pc \in {"aborted", "interrupted"} /\ batch_num >= 1

AbortLeavesCheckpoint ==
    Aborted =>
        /\ file.st # "partial"
        /\ saved_ok # {} => (Persisted /\ Snapshot = existing_results)

\* C12: merging the batch outcome that save_batch_results is about to merge a
\* second time into the merged state gives the tag_frequency and the
\* total_tags_generated of merging it once.
IdempotentMerge ==
    (pc = "save" /\ file.st # "partial") =>
        LET once == MergeResults(Loaded, batch_results)
            twice == MergeResults(once, batch_results)
        IN /\ twice.tag_frequency = once.tag_frequency
           /\ twice.total_tags_generated = once.total_tags_generated

\* C13: at every instant at most max_workers classifier calls are in flight,
\* all of them for transcripts of the current batch, and while process_batch
\* collects, every transcript of the batch has been submitted to the pool.
BoundedConcurrency ==
    /\ Cardinality(Running) <= max_workers
    /\ Running \subseteq Range(batch)
    /\ pc = "collect" => \A d \in Range(batch) : task[d] # "none"

BoundedConcurrencyWitness ==
    /\ pc = "collect"
    /\ Cardinality(Running) = max_workers
    /\ Queued # {}

\* C14: while save_batch_results merges and writes a batch, and until the
\* next batch is submitted, every transcript submitted in the batch has
\* completed and been collected: no task is queued or running.
Merging == pc \in {"save", "save_dump"}

BatchBarrier ==
    /\ Merging => \A d \in Range(batch) : task[d] = "collected"
    /\ pc # "collect" => Running \cup Queued = {}

BatchBarrierWitness ==
    /\ Merging
    /\ Len(batch) = 2
    /\ \E d, e \in Range(batch) :
           classifier[d].kind = "fail" /\ classifier[e].kind = "list"

\* C15: a transcript whose answer parses but has the wrong shape (not an
\* object, or a "tags" that is not a list) is absent from the results of its
\* batch, and every transcript of the batch with a well-shaped answer is in
\* them.
Malformed(d) == classifier[d].kind \in {"nonmap", "null"}

MalformedIsFailure ==
    pc = "save" =>
        \A d \in Range(batch) :
            /\ Malformed(d) => d \notin DOMAIN batch_results.individual_transcript_analysis
            /\ classifier[d].kind = "list" =>
                   d \in DOMAIN batch_results.individual_transcript_analysis

\* C16: a run started in resume mode over some transcripts while the output
\* file is not parseable ends at once in main's error handler: no classifier
\* call is made and the output file is left as it is.
CorruptSnapshotAborts ==
    [][(/\ pc \in Ended \cup {"idle"}
        /\ file.st = "partial"
        /\ resume'
        /\ corpus' # <<>>)
       => (/\ pc' = "aborted"
           /\ file' = file
           /\ calls' = NoCalls
           /\ task' = NoTasks)]_vars

CorruptSnapshotAbortsWitness ==
    /\ pc = "aborted"
    /\ batch_num = 0
    /\ resume
    /\ corpus # <<>>
    /\ file.st = "partial"
    /\ calls = NoCalls

\* C17: in a run without resume that found an output file, the file is gone
\* while the first batch is dispatched and collected, every snapshot written
\* afterwards holds only transcripts and batches of this run, and when every
\* snapshot of the run was written the final one has the results, the
\* frequencies and the totals of this run alone.
FreshRunResets ==
    cleared =>
        /\ ~resume
        /\ (batch_num = 1 /\ pc \in {"loop", "collect", "save"}) => file.st = "absent"
        /\ Persisted =>
               /\ DOMAIN Results \subseteq Range(corpus)
               /\ Snapshot.batches_processed = Cardinality(saved_ok)
        /\ RunOk =>
               LET one == FreshRun(corpus)
               IN /\ Persisted
                  /\ Results = one.individual_transcript_analysis
                  /\ \A l \in Tags :
                         Freq(Snapshot.tag_frequency, l) = Freq(one.tag_frequency, l)
                  /\ Snapshot.total_transcripts_analyzed = one.total_transcripts_analyzed
                  /\ Snapshot.total_tags_generated = one.total_tags_generated

FreshRunResetsWitness ==
    /\ cleared
    /\ RunOk
    /\ Len(corpus) = 1
    /\ Snapshot.tag_frequency # <<>>

\* C18: the recommended_tags a completed run of
\* generate_comprehensive_tag_suggestions returns are never a categorization
\* answer that is not a mapping from category to list of labels, and a
\* fallback is {"Most_Common_Tags": the ten most frequent tags of the final
\* tag_frequency, equal counts in first-seen order}.
Completed == pc = "done" /\ batch_num >= 1

WrongShape(rec) == rec.kind = "other"

IsFallback(rec, tf) ==
    rec.kind = "fallback" => rec.tags = Take(MostCommonAll(tf), FallbackN)

TotalFallback ==
    Completed =>
        /\ ~WrongShape(final_results.recommended_tags)
        /\ IsFallback(final_results.recommended_tags, final_results.tag_frequency)

\* C19: when a run of main has completed (a fresh run, a resume run with or
\* without transcripts left to classify), the result it returns and the
\* snapshot in the output file both have the recommended_tags field.
RecommendationsPopulated ==
    pc = "done" =>
        /\ final_results.recommended_tags # NoRecommendation
        /\ Persisted
        /\ Snapshot.recommended_tags # NoRecommendation

\* C20: after an interruption that found a batch with a transcript not yet
\* collected, no transcript of that batch is in the output file; and the
\* output file of a run that has entered its batch loop holds, of each batch
\* of the run, either every result the batch produced or none.
Produced(B) == {d \in B : ~analyze_single_transcript(d).raised}

MidBatch == pc = "interrupted" /\ \E d \in Range(batch) : task[d] = "done"

PartialBatchDiscarded ==
    /\ MidBatch =>
           Range(batch) \cap DOMAIN Loaded.individual_transcript_analysis = {}
    /\ (Persisted /\ batch_num >= 1) =>
           \A j \in 1..total_batches(transcripts) :
               LET B == Range(batch_transcripts(transcripts, j))
               IN B \cap DOMAIN Results \in {{}, Produced(B)}

PartialBatchDiscardedWitness ==
    /\ MidBatch
    /\ \E d \in Produced(Range(batch)) : task[d] = "collected"
    /\ file.st # "partial"

\* C21: at most one thread is inside the read-merge-write section of
\* save_batch_results, it holds the lock, and every complete snapshot in the
\* output file is the merge, in some order, of the outcomes of exactly the
\* threads whose call has written its snapshot.
Saved == {t \in Threads : thread[t].pc = "saved"}

RECURSIVE MergeInOrder(_, _)
MergeInOrder(acc, order) ==
    IF order = <<>> THEN acc
    ELSE MergeInOrder(MergeResults(acc, thread[Head(order)].results), Tail(order))

Orders(S) ==
    {o \in [1..Cardinality(S) -> S] : \A i, j \in DOMAIN o : i # j => o[i] # o[j]}

SerializedMerges ==
    /\ Cardinality({t \in Threads : InSection(t)}) <= 1
    /\ \A t \in Threads : InSection(t) => results_lock = t
    /\ (driver = "threads" /\ file.st # "partial") =>
           \E order \in Orders(Saved) : Loaded = MergeInOrder(EmptyResults, order)

SerializedMergesWitness ==
    \E t, u \in Threads :
        /\ thread[t].pc = "dump"
        /\ thread[u].pc = "wait"
        /\ thread[t].existing.tag_frequency # <<>>
        /\ thread[u].results.tag_frequency # <<>>

\* C22: whatever the order in which the futures of a batch complete, the
\* batch_results handed to save_batch_results have the per-transcript
\* results, the totals and the tag_frequency mapping (tag to count) of the
\* batch collected in submission order.
SameMapping(tf, tg) ==
    Keys(tf) = Keys(tg) /\ \A l \in Keys(tf) : Freq(tf, l) = Freq(tg, l)

OrderingIndependence ==
    pc = "save" =>
        LET inorder == process_batch(batch)
        IN /\ batch_results.individual_transcript_analysis
                  = inorder.individual_transcript_analysis
           /\ batch_results.total_transcripts_analyzed
                  = inorder.total_transcripts_analyzed
           /\ batch_results.total_tags_generated = inorder.total_tags_generated
           /\ SameMapping(batch_results.tag_frequency, inorder.tag_frequency)

OrderingIndependenceWitness ==
    /\ pc = "save"
    /\ batch_results.tag_frequency # process_batch(batch).tag_frequency

\* C23: within one run of main no transcript is classified twice, only
\* transcripts of the work list are classified, none that the loaded
\* snapshot holds, and once the batch loop has ended every transcript of the
\* work list has been classified exactly once.
AfterLoop ==
    \/ pc \in {"final_load", "recommend", "final_write", "final_dump"}
    \/ pc = "done" /\ batch_num >= 1

ClassifiedOnce ==
    /\ \A d \in Docs : calls[d] <= 1
    /\ \A d \in Docs : calls[d] = 1 => d \in Range(transcripts)
    /\ keys0.loaded => \A d \in keys0.keys : calls[d] = 0
    /\ AfterLoop => \A d \in Range(transcripts) : calls[d] = 1

ClassifiedOnceWitness ==
    /\ pc = "done"
    /\ cleared
    /\ Len(transcripts) = NumDocs
    /\ \A d \in Docs : calls[d] = 1

\* C24: the steps of a run follow the order start (with the optional resume
\* filter), then for batch 1, 2, ... in turn dispatch and merge, then, only
\* once the last batch has gone through its merge, the recommendation step,
\* then the final write and the end, which is reached in no other way; an
\* ended run takes no further step (the next step is the start of another
\* run); and a run in progress eventually ends, completed or aborted.
Step(from, to) == pc \in from /\ pc' \in to

StateMachineStep ==
    \/ pc' = pc /\ pc \in InProgress
    \/ Step(Ended \cup {"idle"}, {"gcts", "empty", "aborted"})
    \/ Step({"gcts"}, {"loop"}) /\ batch_num' = 1
    \/ /\ Step({"loop"}, {"collect"})
       /\ batch_num' = batch_num
       /\ batch_num <= total_batches(transcripts)
       /\ batch' = batch_transcripts(transcripts, batch_num)
    \/ Step({"collect"}, {"save"})
    \/ Step({"save"}, {"save_dump"})
    \/ Step({"save", "save_dump"}, {"loop"}) /\ batch_num' = batch_num + 1
    \/ Step({"loop"}, {"final_load"}) /\ batch_num = total_batches(transcripts) + 1
    \/ Step({"final_load"}, {"recommend"})
    \/ Step({"recommend"}, {"final_write"})
    \/ Step({"final_write"}, {"final_dump"})
    \/ Step({"final_dump"}, {"done"})
    \/ Step({"final_load", "final_write", "final_dump"}, {"aborted"})
    \/ Step(InProgress, {"interrupted"})

RunStateMachine ==
    /\ [][StateMachineStep]_vars
    /\ [](pc \in InProgress => <>(pc \in Ended))

\* C25: for the work list of the run and for every work list of length n up
\* to PartitionLen, with the batch size B of the run, the loop of
\* generate_comprehensive_tag_suggestions makes ceil(n / B) batches; their concatenation
\* in order is the work list; every batch but the last has B transcripts and
\* the last between 1 and B; every transcript is in exactly one batch.
WorkList(n) == [i \in 1..n |-> i]

RECURSIVE ConcatBatches(_, _)
\* The batches n, n + 1, ... of ts, one after the other.
ConcatBatches(ts, n) ==
    IF n > total_batches(ts) THEN <<>>
    ELSE batch_transcripts(ts, n) \o ConcatBatches(ts, n + 1)

Partitioned(ts) ==
    LET n == Len(ts)
        nb == total_batches(ts)
    IN /\ nb * batch_size >= n
       /\ nb * batch_size < n + batch_size
       /\ ConcatBatches(ts, 1) = ts
       /\ \A k \in 1..nb :
              IF k < nb
              THEN Len(batch_transcripts(ts, k)) = batch_size
              ELSE Len(batch_transcripts(ts, k)) \in 1..batch_size
       /\ \A i \in 1..n :
              Cardinality({k \in 1..nb : ts[i] \in Range(batch_transcripts(ts, k))}) = 1

BatchPartition ==
    pc = "loop" =>
        /\ Partitioned(transcripts)
        /\ \A n \in 0..PartitionLen : Partitioned(WorkList(n))

BatchPartitionWitness ==
    /\ pc = "collect"
    /\ batch_size = 2
    /\ batch_num = total_batches(transcripts)
    /\ batch = batch_transcripts(transcripts, batch_num)
    /\ Len(batch) < batch_size
    /\ total_batches(WorkList(PartitionLen)) > 2

\* C26: the value generate_comprehensive_tag_suggestions returns holds every
\* transcript classified in the run, with its tag counts and the totals, also
\* when no output file was given: what example_usage receives from a call
\* with output_file = None equals the results of the run's batches merged.
ReturnedResultsComplete ==
    pc = "returned" =>
        LET run == FreshRun(transcripts)
        IN /\ final_results.individual_transcript_analysis
                  = run.individual_transcript_analysis
           /\ SameMapping(final_results.tag_frequency, run.tag_frequency)
           /\ final_results.total_transcripts_analyzed
                  = run.total_transcripts_analyzed
           /\ final_results.total_tags_generated = run.total_tags_generated
           /\ final_results.unique_tags = run.unique_tags

\* C27: the top-N selection and the fallback recommendation do not depend on
\* the worker schedule: a completed fresh run in which every snapshot was
\* written has the ordered list of its most common tags, and its fallback
\* recommendation, equal to those of the run over the same transcripts, batch
\* size and answers whose workers complete in submission order.
ScheduleDeterminism ==
    (RunOk /\ batch_num >= 1 /\ ~resume_mode) =>
        LET inorder == FreshRun(transcripts).tag_frequency
        IN /\ Take(MostCommonAll(final_results.tag_frequency), TopN)
                  = Take(MostCommonAll(inorder), TopN)
           /\ IsFallback(final_results.recommended_tags, inorder)

====
